---- MODULE Spec2Model ----
(***************************************************************************)
(* A model of linkedin-jobs-api (src/src/index.ts): the Query class, its   *)
(* URL encoder, page-count estimator, markup extractor, recency sorter and *)
(* the getJobs pagination loop.                                            *)
(*                                                                         *)
(* Strings the program inspects character by character (age labels, the    *)
(* job-count text, limit, page, scraped text) are sequences of one-letter  *)
(* strings; strings the program only compares or uses as table keys are    *)
(* TLA+ strings.  JavaScript's undefined, NaN and Infinity are the values  *)
(* Undefined, NaN and Infinity below.                                      *)
(***************************************************************************)
EXTENDS Integers, Sequences, FiniteSets, Bags, TLC

VARIABLES
    mode,               \* which entry point this behaviour exercises
    pc,                 \* position of getJobs / of the function under check
    opts,               \* the Query's fields set by the constructor
    totalPages,         \* getJobs: const totalPages
    currentPage,        \* getJobs: let currentPage
    start,              \* getJobs: let start
    consecutiveErrors,  \* getJobs: let consecutiveErrors
    allJobs,            \* getJobs: let allJobs
    result,             \* what the promise of getJobs settled with
    requests,           \* history: the start parameter of every batch request
    pushed,             \* history: the batches appended, [offset, jobs]
    fetchFails,         \* history: fetchJobBatch rejections in a row
    lastEvent,          \* history: what the last step of the session did
    estimate,           \* history: what the search-page request settled with
    caught,             \* the error the catch of the loop body last bound
    attempt,            \* history: what the latest batch request settled with
    timer,              \* the delay getJobs awaits: its kind and milliseconds
    input,              \* the argument of the pure function under check
    output              \* its value

vars == <<mode, pc, opts, totalPages, currentPage, start, consecutiveErrors,
          allJobs, result, requests, pushed, fetchFails, lastEvent, estimate, caught,
          attempt, timer, input, output>>

---------------------------------------------------------------------------
(* JavaScript values and completions                                       *)

\* undefined is a sequence no string equals: a string holds letters only
Undefined == <<"undefined">>
NaN       == [t |-> "nan"]
Infinity  == [t |-> "inf"]
Num(n)    == [t |-> "num", n |-> n]

Return(v) == [kind |-> "return", value |-> v]
Throw(e)  == [kind |-> "throw", error |-> e]

TypeError == [name |-> "TypeError", message |-> "Cannot read properties of undefined",
              isAxiosError |-> FALSE, status |-> 0]

\* no error bound
NoError == [name |-> "none", message |-> "", isAxiosError |-> FALSE, status |-> 0]

Min(a, b) == IF a < b THEN a ELSE b
Max(a, b) == IF a > b THEN a ELSE b

---------------------------------------------------------------------------
(* String primitives, on sequences of characters                           *)

Digits == <<"0", "1", "2", "3", "4", "5", "6", "7", "8", "9">>

IsDigit(c) == \E i \in 1..10 : Digits[i] = c

DigitVal(c) == (CHOOSE i \in 1..10 : Digits[i] = c) - 1

IsSpace(c) == c \in {" ", "\n", "\t"}

\* String.prototype.toLowerCase, on the letters the labels use
LowerChar(c) ==
    CASE c = "J" -> "j" [] c = "N" -> "n" [] c = "H" -> "h"
      [] c = "M" -> "m" [] c = "D" -> "d" [] c = "A" -> "a"
      [] OTHER -> c

ToLowerCase(s) == [i \in 1..Len(s) |-> LowerChar(s[i])]

\* String.prototype.includes
Includes(s, sub) ==
    \E i \in 1..(Len(s) - Len(sub) + 1) : SubSeq(s, i, i + Len(sub) - 1) = sub

\* String.prototype.trim
RECURSIVE TrimStart(_)
TrimStart(s) ==
    IF s # <<>> /\ IsSpace(Head(s)) THEN TrimStart(Tail(s)) ELSE s

RECURSIVE TrimEnd(_)
TrimEnd(s) ==
    IF s # <<>> /\ IsSpace(s[Len(s)]) THEN TrimEnd(SubSeq(s, 1, Len(s) - 1)) ELSE s

Trim(s) == TrimEnd(TrimStart(s))

\* String.prototype.split with a one-character separator: "" gives <<"">>
RECURSIVE SplitFrom(_, _, _)
SplitFrom(s, sep, cur) ==
    IF s = <<>> THEN <<cur>>
    ELSE IF Head(s) = sep THEN <<cur>> \o SplitFrom(Tail(s), sep, <<>>)
    ELSE SplitFrom(Tail(s), sep, Append(cur, Head(s)))

Split(s, sep) == SplitFrom(s, sep, <<>>)

\* tokens[i] of a JavaScript array: undefined beyond its length
At(arr, i) == IF i <= Len(arr) THEN arr[i] ELSE Undefined

\* the leading run of decimal digits of s
RECURSIVE DigitPrefix(_)
DigitPrefix(s) ==
    IF s # <<>> /\ IsDigit(Head(s)) THEN <<Head(s)>> \o DigitPrefix(Tail(s)) ELSE <<>>

RECURSIVE DecimalValue(_)
DecimalValue(ds) ==
    IF ds = <<>> THEN 0
    ELSE 10 * DecimalValue(SubSeq(ds, 1, Len(ds) - 1)) + DigitVal(ds[Len(ds)])

\* parseInt(s, 10): leading white space skipped, an optional sign, then the
\* longest run of digits; NaN when there is none
ParseInt(s) ==
    LET t    == TrimStart(s)
        neg  == t # <<>> /\ Head(t) = "-"
        body == IF t # <<>> /\ Head(t) \in {"-", "+"} THEN Tail(t) ELSE t
        ds   == DigitPrefix(body)
    IN  IF ds = <<>> THEN NaN
        ELSE Num(IF neg THEN 0 - DecimalValue(ds) ELSE DecimalValue(ds))

\* Number(s) for the strings limit and page carry: "" and blanks are 0, a
\* run of digits is its value, anything else is NaN
NumberOf(s) ==
    LET t == Trim(s)
    IN  IF t = <<>> THEN Num(0)
        ELSE IF DigitPrefix(t) = t THEN Num(DecimalValue(t))
        ELSE NaN

\* Array.prototype.slice(0, end), end a finite number
Slice0(arr, end) ==
    LET e == IF end < 0 THEN Max(Len(arr) + end, 0) ELSE Min(end, Len(arr))
    IN  SubSeq(arr, 1, e)

---------------------------------------------------------------------------
(* ResultSorter: Query.sortJobsByAgoTime                                   *)

S_just_now == <<"j", "u", "s", "t", " ", "n", "o", "w">>
S_hour     == <<"h", "o", "u", "r">>
S_minute   == <<"m", "i", "n", "u", "t", "e">>

\* num * 60 on a JavaScript number
Times60(v) == IF v.t = "num" THEN Num(v.n * 60) ELSE v

\* convertToMinutes: unit is undefined when the label holds no blank, and
\* unit.includes then raises a TypeError
ConvertToMinutes(timeStr) ==
    LET s      == ToLowerCase(timeStr)
        tokens == Split(s, " ")
        numStr == At(tokens, 1)
        unit   == At(tokens, 2)
        num    == ParseInt(numStr)
    IN  IF Includes(s, S_just_now) THEN Return(Num(0))
        ELSE IF unit = Undefined THEN Throw(TypeError)
        ELSE IF Includes(unit, S_hour) THEN Return(Times60(num))
        ELSE IF Includes(unit, S_minute) THEN Return(num)
        ELSE Return(Infinity)

\* the sign Array.prototype.sort reads off a - b: NaN (Infinity - Infinity,
\* or a NaN operand) counts as 0
SubtractSign(a, b) ==
    IF a.t = "nan" \/ b.t = "nan" THEN 0
    ELSE IF a.t = "inf" THEN (IF b.t = "inf" THEN 0 ELSE 1)
    ELSE IF b.t = "inf" THEN -1
    ELSE IF a.n < b.n THEN -1 ELSE IF a.n > b.n THEN 1 ELSE 0

\* the comparator of line 123, on two jobs whose labels convert
CompareJobs(a, b) ==
    SubtractSign(ConvertToMinutes(a.agoTime).value, ConvertToMinutes(b.agoTime).value)

\* Array.prototype.sort is stable: x goes after the last element not above it
RECURSIVE InsertStable(_, _)
InsertStable(sorted, x) ==
    IF sorted = <<>> THEN <<x>>
    ELSE IF CompareJobs(sorted[Len(sorted)], x) <= 0 THEN Append(sorted, x)
    ELSE Append(InsertStable(SubSeq(sorted, 1, Len(sorted) - 1), x), sorted[Len(sorted)])

RECURSIVE StableSort(_)
StableSort(jobs) ==
    IF jobs = <<>> THEN <<>>
    ELSE InsertStable(StableSort(SubSeq(jobs, 1, Len(jobs) - 1)), jobs[Len(jobs)])

\* sortJobsByAgoTime: with two or more jobs the comparator reads every job's
\* label, so one label that makes convertToMinutes raise makes the sort raise;
\* with fewer than two jobs the comparator is never called
SortJobsByAgoTime(jobs) ==
    IF Len(jobs) >= 2 /\ \E i \in 1..Len(jobs) : ConvertToMinutes(jobs[i].agoTime).kind = "throw"
    THEN Throw(TypeError)
    ELSE IF Len(jobs) < 2 THEN Return(jobs)
    ELSE Return(StableSort(jobs))

---------------------------------------------------------------------------
(* HtmlJobExtractor: Query.parseJobList                                    *)

Null == [t |-> "null"]

S_Not_specified == <<"N", "o", "t", " ", "s", "p", "e", "c", "i", "f", "i", "e", "d">>

\* attr(name) || "" : a missing attribute and an empty one both give ""
AttrOrEmpty(a) == IF a = Undefined THEN <<>> ELSE a

\* replace(/\s+/g, " ")
RECURSIVE CollapseSpaces(_)
CollapseSpaces(s) ==
    IF s = <<>> THEN <<>>
    ELSE IF IsSpace(Head(s))
         THEN <<" ">> \o CollapseSpaces(TrimStart(s))
         ELSE <<Head(s)>> \o CollapseSpaces(Tail(s))

\* jobUrl.split('?')[0]
StripQuery(url) == Split(url, "?")[1]

\* line 279-285: the primary link, else the first anchor, query string cut
JobUrlOf(item) ==
    LET primary == AttrOrEmpty(item.fullLink)
        jobUrl  == IF primary = <<>> THEN AttrOrEmpty(item.anchor) ELSE primary
    IN  IF jobUrl # <<>> THEN StripQuery(jobUrl) ELSE jobUrl

\* line 288-289: the new-layout label, else the legacy one, else ""
AgoTimeOf(item) ==
    IF Trim(item.listdateNew) # <<>> THEN Trim(item.listdateNew) ELSE Trim(item.listdate)

\* a filter that forgets the company
ItemKeptPositionOnly(position, company) == position # <<>>

\* line 291: if (!position || !company) return null
ItemKept(position, company) == position # <<>> /\ company # <<>>

\* the salary as scraped, without the sentinel
SalaryAsScraped(salary) == salary

\* line 298: salary || "Not specified"
SalaryOrSentinel(salary) == IF salary = <<>> THEN S_Not_specified ELSE salary

\* line 303-306: the per-item catch
ItemCatch(err) == Null

\* the callback of jobs.map, lines 270-307
ExtractJob(item) ==
    IF item.throws THEN ItemCatch(TypeError)
    ELSE LET position == Trim(item.title)
             company  == Trim(item.subtitle)
         IN  IF ~ItemKept(position, company) THEN Null
             ELSE [position    |-> position,
                   company     |-> company,
                   location    |-> Trim(item.location),
                   date        |-> AttrOrEmpty(item.datetime),
                   salary      |-> SalaryOrSentinel(CollapseSpaces(Trim(item.salaryInfo))),
                   jobUrl      |-> JobUrlOf(item),
                   companyLogo |-> AttrOrEmpty(item.logo),
                   agoTime     |-> AgoTimeOf(item)]

\* .map(...).get().filter(job => job !== null)
RECURSIVE MapExtract(_)
MapExtract(items) ==
    IF items = <<>> THEN <<>>
    ELSE LET job == ExtractJob(Head(items))
         IN  (IF job = Null THEN <<>> ELSE <<job>>) \o MapExtract(Tail(items))

\* line 310-313: the page-level catch
PageCatch(err) == <<>>

\* parseJobList: a page cheerio cannot load yields the empty list
ParseJobList(jobData) ==
    IF jobData.malformed THEN PageCatch(TypeError) ELSE MapExtract(jobData.items)

---------------------------------------------------------------------------
(* The constructor, lines 52-68                                            *)

\* an option the caller left out of the query object
Absent == "(absent)"

\* queryObj.x || "" for the options held as plain strings
OrEmpty(v) == IF v = Absent THEN "" ELSE v

\* queryObj.limit || "" and queryObj.page || "": character strings
OrEmptySeq(v) == IF v = Undefined THEN <<>> ELSE v

\* queryObj.keyword?.trim() || ""
TrimOrEmpty(v) == IF v = Undefined THEN <<>> ELSE Trim(v)

Constructor(queryObj) ==
    [keyword         |-> TrimOrEmpty(queryObj.keyword),
     location        |-> TrimOrEmpty(queryObj.location),
     dateSincePosted |-> OrEmpty(queryObj.dateSincePosted),
     jobType         |-> OrEmpty(queryObj.jobType),
     remoteFilter    |-> OrEmpty(queryObj.remoteFilter),
     salary          |-> OrEmpty(queryObj.salary),
     experienceLevel |-> OrEmpty(queryObj.experienceLevel),
     sortBy          |-> OrEmpty(queryObj.sortBy),
     limit           |-> OrEmptySeq(queryObj.limit),
     page            |-> OrEmptySeq(queryObj.page)]

---------------------------------------------------------------------------
(* QueryParameterEncoder: the lookup tables and getUrl                     *)

JStr(s)          == [t |-> "string", s |-> s]
JFun(name, len)  == [t |-> "function", name |-> name, length |-> len]
JObj             == [t |-> "object"]
JUndef           == [t |-> "undefined"]

\* What every object literal inherits from Object.prototype: table[key] finds
\* these when key is not one of the table's own keys.
ObjectPrototype ==
    "constructor"    :> JFun("Object", 1) @@
    "hasOwnProperty" :> JFun("hasOwnProperty", 1) @@
    "toString"       :> JFun("toString", 0) @@
    "valueOf"        :> JFun("valueOf", 0) @@
    "__proto__"      :> JObj

\* table[key]: an own property, else an inherited one, else undefined
Lookup(table, key) ==
    IF key \in DOMAIN table THEN JStr(table[key])
    ELSE IF key \in DOMAIN ObjectPrototype THEN ObjectPrototype[key]
    ELSE JUndef

Truthy(v) == ~(v.t = "undefined" \/ (v.t = "string" /\ v.s = ""))

\* value || ""
OrEmptyValue(v) == IF Truthy(v) THEN v ELSE JStr("")

\* value.length > 0: a string's length, a function's arity, undefined > 0
\* (false) for anything else
LengthPositive(v) ==
    CASE v.t = "string"   -> v.s # ""
      [] v.t = "function" -> v.length > 0
      [] OTHER            -> FALSE

\* String(value), as URLSearchParams.append stores it
StringOf(v) ==
    CASE v.t = "string"   -> v.s
      [] v.t = "function" -> "function " \o v.name \o "() { [native code] }"
      [] v.t = "object"   -> "[object Object]"
      [] OTHER            -> "undefined"

dateRange ==
    "past month" :> "r2592000" @@ "past week" :> "r604800" @@
    "24hr" :> "r86400" @@ "1hr" :> "r3600"

experienceRange ==
    "internship" :> "1" @@ "entry level" :> "2" @@ "associate" :> "3" @@
    "senior" :> "4" @@ "director" :> "5" @@ "executive" :> "6"

jobTypeRange ==
    "full time" :> "F" @@ "part time" :> "P" @@ "contract" :> "C" @@
    "temporary" :> "T" @@ "volunteer" :> "V" @@ "internship" :> "I"

remoteFilterRange ==
    "on-site" :> "1" @@ "remote" :> "2" @@ "hybrid" :> "3"

salaryRange ==
    "40000" :> "1" @@ "60000" :> "2" @@ "80000" :> "3" @@
    "100000" :> "4" @@ "120000" :> "5"

\* if (!this.x) return ""; return table[this.x] || "";
GetCode(value, table) ==
    IF value = "" THEN JStr("") ELSE OrEmptyValue(Lookup(table, value))

getDateSincePosted(o) == GetCode(o.dateSincePosted, dateRange)
getExperienceLevel(o) == GetCode(o.experienceLevel, experienceRange)
getJobType(o)         == GetCode(o.jobType, jobTypeRange)
getRemoteFilter(o)    == GetCode(o.remoteFilter, remoteFilterRange)
getSalary(o)          == GetCode(o.salary, salaryRange)

BATCH_SIZE == 25

\* getPage: Number(this.page) * 25
getPage(o) ==
    LET n == NumberOf(o.page) IN IF n.t = "num" THEN Num(n.n * BATCH_SIZE) ELSE n

\* start + this.getPage()
StartParam(o, startArg) ==
    LET p == getPage(o) IN IF p.t = "num" THEN Num(startArg + p.n) ELSE p

\* if (cond) params.append(key, value)
AppendIf(cond, key, value) == IF cond THEN << <<key, value>> >> ELSE <<>>

\* if (this.getX().length > 0) params.append(key, this.getX())
FilterParam(key, code) == AppendIf(LengthPositive(code), key, StringOf(code))

\* getUrl: the URLSearchParams, in the order of the appends
getUrl(o, startArg) ==
    AppendIf(o.keyword # <<>>, "keywords", o.keyword)
    \o AppendIf(o.location # <<>>, "location", o.location)
    \o FilterParam("f_TPR", getDateSincePosted(o))
    \o FilterParam("f_SB2", getSalary(o))
    \o FilterParam("f_E", getExperienceLevel(o))
    \o FilterParam("f_WT", getRemoteFilter(o))
    \o FilterParam("f_JT", getJobType(o))
    \o << <<"start", StartParam(o, startArg)>> >>
    \o AppendIf(o.sortBy = "relevant", "sortBy", "R")

---------------------------------------------------------------------------
(* PageCountEstimator: Query.getTotalPages                                 *)

FALLBACK_PAGES == 40
MAX_PAGES == 40

\* jobsCountText.replace(/[^\d]/g, '')
RECURSIVE KeepDigits(_)
KeepDigits(s) ==
    IF s = <<>> THEN <<>>
    ELSE (IF IsDigit(Head(s)) THEN <<Head(s)>> ELSE <<>>) \o KeepDigits(Tail(s))

\* parseInt(jobsCountText.replace(/[^\d]/g, '') || '0', 10)
JobsCount(jobsCountText) ==
    LET ds == KeepDigits(Trim(jobsCountText))
    IN  DecimalValue(IF ds = <<>> THEN <<"0">> ELSE ds)

\* Math.ceil(n / 25) for n >= 0
CeilDiv(n, d) == (n + d - 1) \div d

\* line 223: Math.max(1, Math.ceil(jobsCount / 25))
PagesFor(jobsCount) == Max(1, CeilDiv(jobsCount, BATCH_SIZE))

\* no upper clamp
ClampPagesMissing(pages) == pages

\* line 227: Math.min(totalPages, 40)
ClampPages(pages) == Min(pages, MAX_PAGES)

\* a catch that passes the failure on
TotalPagesCatchRethrows(err) == Throw(err)

\* line 228-231: the catch answers with the fallback
TotalPagesCatch(err) == Return(FALLBACK_PAGES)

\* getTotalPages on the outcome of the search-page request: a response
\* carrying the job-count text the selectors find, or a failure of the
\* request or of the parse
getTotalPages(outcome) ==
    IF outcome.kind = "response"
    THEN Return(ClampPages(PagesFor(JobsCount(outcome.text))))
    ELSE TotalPagesCatch(outcome.error)

---------------------------------------------------------------------------
(* BatchFetcher: Query.fetchJobBatch                                       *)

RateLimitError == [name |-> "Error", message |-> "Rate limit reached",
                   isAxiosError |-> FALSE, status |-> 0]

\* an axios rejection; status 0 stands for "no response" (a transport
\* failure or the 10 s timeout)
AxiosError(status) == [name |-> "AxiosError", message |-> "request failed",
                       isAxiosError |-> TRUE, status |-> status]

\* line 256-261: a 429 becomes the "rate limited" error, the rest is rethrown
FetchCatch(error) ==
    IF error.isAxiosError /\ error.status = 429 THEN Throw(RateLimitError)
    ELSE Throw(error)

\* fetchJobBatch on the outcome of axios.get
fetchJobBatch(outcome) ==
    IF outcome.kind = "response" THEN Return(ParseJobList(outcome.data))
    ELSE FetchCatch(outcome.error)

---------------------------------------------------------------------------
(* PaginationController: Query.getJobs                                     *)

MAX_CONSECUTIVE_ERRORS == 3

Pending     == [kind |-> "pending"]
Resolved(v) == [kind |-> "resolved", value |-> v]
Rejected(e) == [kind |-> "rejected", error |-> e]

\* a loop that ignores the page count
LoopConditionUnbounded(cp, tp) == TRUE

\* line 331: while (currentPage < totalPages)
LoopCondition(cp, tp) == cp < tp

\* line 345: this.limit && allJobs.length >= Number(this.limit)
LimitReached(limit, len) ==
    /\ limit # <<>>
    /\ NumberOf(limit).t = "num"
    /\ len >= NumberOf(limit).n

\* line 346: allJobs.slice(0, Number(this.limit))
Truncate(jobs, limit) == Slice0(jobs, NumberOf(limit).n)

\* a ceiling test that is off by one
ErrorCeilingStrict(errs) == errs > MAX_CONSECUTIVE_ERRORS

\* line 360: consecutiveErrors >= MAX_CONSECUTIVE_ERRORS
ErrorCeiling(errs) == errs >= MAX_CONSECUTIVE_ERRORS

\* a re-sort that ignores the sort preference
SortAlways(o) == TRUE

\* line 343: the accumulator is re-sorted only for sortBy "recent"
SortWanted(o) == o.sortBy = "recent"

\* line 369-370: return allJobs
ReturnJobs(jobs, why) ==
    /\ pc' = "done"
    /\ result' = Resolved(jobs)
    /\ lastEvent' = why
    /\ requests' = requests

\* the start parameter of the batch request in flight
LastRequest == IF requests = <<>> THEN NaN ELSE requests[Len(requests)]

\* the loop head: either the next batch request goes out (fetchJobBatch
\* builds its URL with getUrl(start)), or the loop is over and getJobs returns
LoopHead(tp, cp, st, jobs, why) ==
    IF LoopCondition(cp, tp)
    THEN /\ pc' = "fetching"
         /\ requests' = Append(requests, StartParam(opts, st))
         /\ result' = result
         /\ lastEvent' = why
    ELSE ReturnJobs(jobs, "pages")

\* line 371-374: the outer catch logs and rethrows
OuterCatch(error) ==
    /\ pc' = "rejected"
    /\ result' = Rejected(error)
    /\ lastEvent' = "fatal"
    /\ requests' = requests

\* line 327-331: await getTotalPages(), then the first pass of the loop head
EstimatePages(outcome) ==
    /\ mode \in {"session", "pages"}
    /\ pc = "estimating"
    /\ estimate' = outcome
    /\ LET r == getTotalPages(outcome)
       IN  IF r.kind = "throw"
           THEN /\ OuterCatch(r.error)
                /\ UNCHANGED totalPages
           ELSE /\ totalPages' = r.value
                /\ LoopHead(r.value, currentPage, start, allJobs, "estimated")
    /\ UNCHANGED <<mode, opts, currentPage, start, consecutiveErrors, allJobs,
                   pushed, fetchFails, caught, attempt, timer, input, output>>

\* line 33: delay(ms) arms a timer; the promise resolves when it fires
delay(kind, ms) == [kind |-> kind, ms |-> ms]

NoTimer == [kind |-> "none", ms |-> 0]

\* no batch request has settled since the last one went out
NoAttempt == [kind |-> "none"]

\* line 356: Math.random() * 1000, in whole milliseconds: the ends and the
\* middle of [0, 1000)
MathRandom == {0, 500, 999}

\* line 356: 2000 + Math.random() * 1000
PacingMs(random) == 2000 + random

\* line 365: Math.pow(2, consecutiveErrors) * 1000
BackoffMs(errs) == (2 ^ errs) * 1000

\* the timer fires and the loop goes round: the next request, if one goes
\* out, is a new attempt
TimerFires ==
    /\ timer' = NoTimer
    /\ attempt' = IF LoopCondition(currentPage, totalPages) THEN NoAttempt ELSE attempt

\* an emptiness test that never finds the batch empty
BatchEmptyNever(jobs) == FALSE

\* line 335: !jobs || jobs.length === 0
BatchEmpty(jobs) == Len(jobs) = 0

\* line 357-366: the catch of the loop body, entered with the accumulator
\* as the try block left it
LoopCatch(error, jobs, why) ==
    /\ caught' = error
    /\ consecutiveErrors' = consecutiveErrors + 1
    /\ allJobs' = jobs
    /\ UNCHANGED <<currentPage, start>>
    /\ IF ErrorCeiling(consecutiveErrors + 1)
       THEN /\ ReturnJobs(jobs, "ceiling")
            /\ UNCHANGED timer
       ELSE /\ pc' = "backoff"
            /\ timer' = delay("backoff", BackoffMs(consecutiveErrors + 1))
            /\ lastEvent' = why
            /\ UNCHANGED <<result, requests>>

\* line 333-356: the try block once fetchJobBatch has resolved with jobs
LoopBody(jobs) ==
    IF BatchEmpty(jobs)
    THEN /\ ReturnJobs(allJobs, "empty")
         /\ UNCHANGED <<allJobs, consecutiveErrors, currentPage, start, pushed, caught,
                        timer>>
    ELSE LET appended == allJobs \o jobs
             sorted   == IF SortWanted(opts) THEN SortJobsByAgoTime(appended)
                         ELSE Return(appended)
         IN  /\ pushed' = Append(pushed, [offset |-> LastRequest, jobs |-> jobs])
             /\ IF sorted.kind = "throw"
                THEN LoopCatch(sorted.error, appended, "aggregate-error")
                ELSE IF LimitReached(opts.limit, Len(sorted.value))
                THEN /\ allJobs' = Truncate(sorted.value, opts.limit)
                     /\ ReturnJobs(Truncate(sorted.value, opts.limit), "limit")
                     /\ UNCHANGED <<consecutiveErrors, currentPage, start, caught,
                                    timer>>
                ELSE /\ allJobs' = sorted.value
                     /\ consecutiveErrors' = 0
                     /\ currentPage' = currentPage + 1
                     /\ start' = start + BATCH_SIZE
                     /\ pc' = "delaying"
                     /\ \E random \in MathRandom :
                            timer' = delay("pacing", PacingMs(random))
                     /\ lastEvent' = "appended"
                     /\ caught' = NoError
                     /\ UNCHANGED <<result, requests>>

\* fetchJobBatch resolves with the jobs parsed from the response
FetchResolves(outcome) ==
    /\ mode = "session"
    /\ pc = "fetching"
    /\ fetchJobBatch(outcome).kind = "return"
    /\ LoopBody(fetchJobBatch(outcome).value)
    /\ fetchFails' = 0
    /\ attempt' = outcome
    /\ UNCHANGED <<mode, opts, totalPages, estimate, input, output>>

\* fetchJobBatch rejects: HTTP 429, another status, no response, timeout
FetchRejects(outcome) ==
    /\ mode = "session"
    /\ pc = "fetching"
    /\ fetchJobBatch(outcome).kind = "throw"
    /\ LoopCatch(fetchJobBatch(outcome).error, allJobs, "fetch-error")
    /\ fetchFails' = fetchFails + 1
    /\ attempt' = outcome
    /\ UNCHANGED <<mode, opts, totalPages, pushed, estimate, input, output>>

\* line 356: the pacing delay is over, back to the loop head
PacingDelayElapses ==
    /\ mode = "session"
    /\ pc = "delaying"
    /\ LoopHead(totalPages, currentPage, start, allJobs, "paced")
    /\ TimerFires
    /\ UNCHANGED <<mode, opts, totalPages, currentPage, start, consecutiveErrors,
                   allJobs, pushed, fetchFails, estimate, caught, input, output>>

\* line 365: the backoff is over, back to the loop head
BackoffElapses ==
    /\ mode = "session"
    /\ pc = "backoff"
    /\ LoopHead(totalPages, currentPage, start, allJobs, "backed-off")
    /\ TimerFires
    /\ UNCHANGED <<mode, opts, totalPages, currentPage, start, consecutiveErrors,
                   allJobs, pushed, fetchFails, estimate, caught, input, output>>

---------------------------------------------------------------------------
(* The environment of a session: the caller's options and the remote site  *)

MaxServerPages == 2    \* pages of results the site holds

S_2_hours_ago   == <<"2", " ", "h", "o", "u", "r", "s", " ", "a", "g", "o">>
S_5_minutes_ago == <<"5", " ", "m", "i", "n", "u", "t", "e", "s", " ", "a", "g", "o">>

\* one <li> of a listing page: what the selectors of parseJobList find in it
ListItem(title, subtitle, label) ==
    [title |-> title, subtitle |-> subtitle, location |-> <<>>,
     datetime |-> Undefined, salaryInfo |-> <<>>, fullLink |-> Undefined,
     anchor |-> Undefined, logo |-> Undefined, listdateNew |-> <<>>,
     listdate |-> label, throws |-> FALSE]

\* the cards a session meets: an older and a newer one, one without an age
\* label, one without a title, one without a company and one whose
\* extraction raises
CardOld       == ListItem(<<"a">>, <<"x">>, S_2_hours_ago)
CardNew       == ListItem(<<"b">>, <<"x">>, S_5_minutes_ago)
CardUndated   == ListItem(<<"c">>, <<"x">>, <<>>)
CardUntitled  == ListItem(<<" ">>, <<"x">>, S_2_hours_ago)
CardNoCompany == ListItem(<<"d">>, <<"\n">>, S_2_hours_ago)
CardThrowing  == [ListItem(<<"e">>, <<"x">>, S_2_hours_ago) EXCEPT !.throws = TRUE]

ListingPage(items) == [malformed |-> FALSE, items |-> items]
MalformedPage      == [malformed |-> TRUE, items |-> <<>>]

\* the listing pages the site serves: no card, cards in and out of recency
\* order, a card the extractor drops, alone and beside a good one, a card
\* whose extraction raises, and markup cheerio cannot load
SessionPages ==
    { ListingPage(<<>>),
      ListingPage(<<CardOld, CardNew>>),
      ListingPage(<<CardNew>>),
      ListingPage(<<CardThrowing, CardNew>>),
      ListingPage(<<CardUndated>>),
      ListingPage(<<CardUntitled, CardOld>>),
      ListingPage(<<CardUntitled>>),
      MalformedPage }

\* a page with nothing to extract
BlankPages == {ListingPage(<<>>), MalformedPage}

\* what axios.get may settle with for the batch at an offset: beyond the
\* site's last page only pages without cards come back
BatchOutcomes(offset) ==
    {[kind |-> "response", data |-> page] :
        page \in IF offset.t = "num" /\ offset.n \div BATCH_SIZE < MaxServerPages
                 THEN SessionPages ELSE BlankPages}
    \cup {[kind |-> "error", error |-> AxiosError(st)] : st \in {0, 429}}

S_26_jobs  == <<"2", "6", " ", "j", "o", "b", "s">>
S_1000plus == <<"1", ",", "0", "0", "0", "+">>

\* what the search-page request may settle with
SearchOutcomes ==
    {[kind |-> "response", text |-> t] : t \in {<<>>, S_26_jobs, S_1000plus}}
    \cup {[kind |-> "error", error |-> AxiosError(0)]}

S_dev == <<" ", "d", "e", "v">>

NoOptions ==
    [keyword |-> Undefined, location |-> Undefined, dateSincePosted |-> Absent,
     jobType |-> Absent, remoteFilter |-> Absent, salary |-> Absent,
     experienceLevel |-> Absent, sortBy |-> Absent,
     limit |-> Undefined, page |-> Undefined]

SessionQueries ==
    {[NoOptions EXCEPT !.keyword = S_dev, !.sortBy = sb, !.limit = lim, !.page = pg] :
        sb \in {Absent, "recent", "relevant"},
        lim \in {Undefined, <<>>, <<"0">>, <<"1">>, <<"3">>},
        pg \in {Undefined, <<"1">>}}

NoValue == <<>>

Init ==
    /\ mode = "session"
    /\ pc = "estimating"
    /\ opts \in {Constructor(q) : q \in SessionQueries}
    /\ totalPages = 0
    /\ currentPage = 0
    /\ start = 0
    /\ consecutiveErrors = 0
    /\ allJobs = <<>>
    /\ result = Pending
    /\ requests = <<>>
    /\ pushed = <<>>
    /\ fetchFails = 0
    /\ lastEvent = "start"
    /\ estimate = [kind |-> "none"]
    /\ caught = NoError
    /\ attempt = NoAttempt
    /\ timer = NoTimer
    /\ input = NoValue
    /\ output = NoValue

Next ==
    \/ \E outcome \in SearchOutcomes : EstimatePages(outcome)
    \/ \E outcome \in BatchOutcomes(LastRequest) : FetchResolves(outcome)
    \/ \E outcome \in BatchOutcomes(LastRequest) : FetchRejects(outcome)
    \/ PacingDelayElapses
    \/ BackoffElapses

Spec == Init /\ [][Next]_vars

\* every await of getJobs settles: the requests carry a timeout and the
\* timers of delay() fire, so a step that can be taken is taken
FairSpec == Init /\ [][Next]_vars /\ WF_vars(Next)

---------------------------------------------------------------------------
(* getTotalPages on its own: every job-count text up to a length           *)

MaxCountLen == 4       \* letters of the job-count text

SeqsUpTo(S, n) == UNION {[1..k -> S] : k \in 0..n}

CountAlphabet == {"0", "1", "2", "5", ",", " "}

CountOutcomes ==
    {[kind |-> "response", text |-> t] : t \in SeqsUpTo(CountAlphabet, MaxCountLen)}
    \cup {[kind |-> "error", error |-> AxiosError(st)] : st \in {0, 429}}

OtherVarsIdle ==
    /\ totalPages = 0
    /\ currentPage = 0
    /\ start = 0
    /\ consecutiveErrors = 0
    /\ allJobs = <<>>
    /\ result = Pending
    /\ requests = <<>>
    /\ pushed = <<>>
    /\ fetchFails = 0
    /\ lastEvent = "start"
    /\ estimate = [kind |-> "none"]
    /\ caught = NoError
    /\ attempt = NoAttempt
    /\ timer = NoTimer

InitPages ==
    /\ mode = "pages"
    /\ pc = "estimating"
    /\ opts = Constructor([NoOptions EXCEPT !.keyword = S_dev])
    /\ OtherVarsIdle
    /\ input = NoValue
    /\ output = NoValue

NextPages == \E outcome \in CountOutcomes : EstimatePages(outcome)

SpecPages == InitPages /\ [][NextPages]_vars

---------------------------------------------------------------------------
(* parseJobList on its own: every page of a family of listing pages        *)

MaxItems == 2          \* cards on a page of several cards

\* a card by the ten things the selectors of parseJobList read from it
Card(title, subtitle, location, datetime, salaryInfo, links, logo, dates, throws) ==
    [title |-> title, subtitle |-> subtitle, location |-> location,
     datetime |-> datetime, salaryInfo |-> salaryInfo, fullLink |-> links[1],
     anchor |-> links[2], logo |-> logo, listdateNew |-> dates[1],
     listdate |-> dates[2], throws |-> throws]

S_link_v == <<"v", "?", "q">>
S_link_u == <<"u", "?", "q">>

\* cards varying in every field: text present, blank or missing, attributes
\* present, empty or missing, extraction raising or not
RichCards ==
    {Card(title, subtitle, location, datetime, salaryInfo, links, logo, dates, throws) :
        title \in {<<>>, <<" ">>, <<" ", "a", " ">>},
        subtitle \in {<<>>, <<"x">>},
        location \in {<<>>, <<"L", "\n">>},
        datetime \in {Undefined, <<"d">>},
        salaryInfo \in {<<>>, <<" ">>, <<"$", " ", "\n", "1">>},
        links \in {<<Undefined, Undefined>>, <<Undefined, S_link_u>>,
                   <<S_link_v, S_link_u>>, <<<<>>, <<"u">>>>},
        logo \in {Undefined, <<"g">>},
        dates \in {<<<<>>, <<>>>>, <<<<>>, S_2_hours_ago>>,
                   <<S_just_now, S_2_hours_ago>>, <<<<" ">>, S_5_minutes_ago>>},
        throws \in BOOLEAN}

CoreCards == {CardOld, CardNew, CardUntitled, CardNoCompany, CardThrowing}

ParsePages ==
    {ListingPage(<<c>>) : c \in RichCards}
    \cup {ListingPage(items) : items \in SeqsUpTo(CoreCards, MaxItems)}
    \cup {MalformedPage}

InitParse ==
    /\ mode = "parse"
    /\ pc = "call"
    /\ opts = Constructor(NoOptions)
    /\ OtherVarsIdle
    /\ input \in ParsePages
    /\ output = NoValue

ParseStep ==
    /\ mode = "parse"
    /\ pc = "call"
    /\ output' = ParseJobList(input)
    /\ pc' = "returned"
    /\ UNCHANGED <<mode, opts, totalPages, currentPage, start, consecutiveErrors,
                   allJobs, result, requests, pushed, fetchFails, lastEvent,
                   estimate, caught, attempt, timer, input>>

NextParse == ParseStep

SpecParse == InitParse /\ [][NextParse]_vars

---------------------------------------------------------------------------
(* getUrl on its own: every combination of filter values                   *)

Recognised(table) == DOMAIN table

UrlQueries ==
    {[NoOptions EXCEPT !.keyword = S_dev, !.dateSincePosted = d, !.salary = sa,
                       !.experienceLevel = e, !.remoteFilter = r, !.jobType = j] :
        d  \in Recognised(dateRange) \cup {Absent, "", "yesterday", "constructor", "toString", "__proto__"},
        sa \in Recognised(salaryRange) \cup {Absent, "", "50000", "constructor"},
        e  \in Recognised(experienceRange) \cup {Absent, "", "junior", "hasOwnProperty"},
        r  \in Recognised(remoteFilterRange) \cup {Absent, "", "office", "valueOf"},
        j  \in Recognised(jobTypeRange) \cup {Absent, "", "freelance", "constructor"}}

InitUrl ==
    /\ mode = "url"
    /\ pc = "call"
    /\ opts \in {Constructor(q) : q \in UrlQueries}
    /\ OtherVarsIdle
    /\ input = 0
    /\ output = NoValue

GetUrlStep ==
    /\ mode = "url"
    /\ pc = "call"
    /\ output' = getUrl(opts, input)
    /\ pc' = "returned"
    /\ UNCHANGED <<mode, opts, totalPages, currentPage, start, consecutiveErrors,
                   allJobs, result, requests, pushed, fetchFails, lastEvent,
                   estimate, caught, attempt, timer, input>>

NextUrl == GetUrlStep

SpecUrl == InitUrl /\ [][NextUrl]_vars

---------------------------------------------------------------------------
(* Properties of a session                                                 *)

\* the batches of a log laid end to end
RECURSIVE Flatten(_)
Flatten(log) == IF log = <<>> THEN <<>> ELSE Head(log).jobs \o Flatten(Tail(log))

\* a list as a bag: how often each record occurs in it
SeqToBag(seq) ==
    [x \in {seq[i] : i \in 1..Len(seq)} |-> Cardinality({i \in 1..Len(seq) : seq[i] = x})]

Range(seq) == {seq[i] : i \in 1..Len(seq)}

IsPrefixOf(a, b) == Len(a) <= Len(b) /\ a = SubSeq(b, 1, Len(a))

Done == pc = "done"

\* the limit option when it is a positive number, else 0
PositiveLimit == IF NumberOf(opts.limit).t = "num" THEN NumberOf(opts.limit).n ELSE 0

\* C1: once three batch fetch attempts in a row have failed, the session is
\* over with no further request, and getJobs has resolved with the records
\* of the batches fetched before: all of them, each as often as it was
\* fetched, and in fetch order when no recency sort was asked for.
C1_ThreeFetchFailuresEndSession ==
    /\ fetchFails <= 3
    /\ fetchFails = 3 =>
         /\ Done
         /\ lastEvent = "ceiling"
         /\ result = Resolved(allJobs)
         /\ SeqToBag(result.value) = SeqToBag(Flatten(pushed))
         /\ ~SortWanted(opts) => result.value = Flatten(pushed)

\* C1 witness: two batches of different sizes were appended, then three
\* fetches failed, and the three records came back.
C1_Witness ==
    /\ fetchFails = 3
    /\ Done
    /\ Len(pushed) = 2
    /\ Len(pushed[1].jobs) = 2
    /\ Len(pushed[2].jobs) = 1
    /\ Len(result.value) = 3

\* C2: with a positive limit L the returned list never holds more than L
\* records, holds exactly L whenever at least L were accumulated, and these
\* are the first L of the accumulator.
C2_LimitExact ==
    (Done /\ PositiveLimit > 0) =>
        /\ Len(result.value) <= PositiveLimit
        /\ Len(Flatten(pushed)) >= PositiveLimit => Len(result.value) = PositiveLimit
        /\ ~SortWanted(opts) => IsPrefixOf(result.value, Flatten(pushed))

\* C3: whatever the page-count request and the batch requests settle with,
\* getJobs resolves with a list and never rejects.
C3_NeverRejects ==
    /\ pc # "rejected"
    /\ result.kind # "rejected"
    /\ Done => result.kind = "resolved"

\* C3 witness: the page-count request failed, a batch was appended, the last
\* attempt was answered 429, and getJobs resolved with the partial list.
C3_Witness ==
    /\ Done
    /\ estimate.kind = "error"
    /\ caught = RateLimitError
    /\ result.kind = "resolved"
    /\ Len(result.value) > 0

\* C4: with the limit absent, empty or "0" the session is unbounded: the
\* limit never ends it and the accumulator is never truncated.
C4_ZeroLimitUnbounded ==
    opts.limit \in {<<>>, <<"0">>} =>
        /\ lastEvent # "limit"
        /\ Done => Len(result.value) = Len(Flatten(pushed))

\* C5: unless sortBy is "recent", no step reorders the accumulator: it is the
\* batches appended so far laid end to end, the batches are non-empty and
\* their offsets ascend by one batch width, and the returned list is that
\* concatenation, cut to its first records only when the limit ended the
\* session.
C5_FetchOrderKept ==
    opts.sortBy # "recent" =>
        /\ \A i \in 1..Len(pushed) :
              /\ pushed[i].jobs # <<>>
              /\ pushed[i].offset = StartParam(opts, BATCH_SIZE * (i - 1))
        /\ lastEvent # "limit" => allJobs = Flatten(pushed)
        /\ Done => /\ IsPrefixOf(result.value, Flatten(pushed))
                   /\ lastEvent # "limit" => result.value = Flatten(pushed)
                   /\ (lastEvent = "limit" /\ PositiveLimit > 0) =>
                          Len(result.value) = PositiveLimit

\* C5 witness: without a recency sort, a page listing an older card before a
\* newer one and a second page were appended and came back in that order.
C5_Witness ==
    /\ Done
    /\ opts.sortBy # "recent"
    /\ Len(pushed) = 2
    /\ Len(pushed[1].jobs) = 2
    /\ pushed[1].jobs[1].agoTime = S_2_hours_ago
    /\ pushed[1].jobs[2].agoTime = S_5_minutes_ago
    /\ result.value = Flatten(pushed)

\* the age labels of the model the specification recognises, with the
\* minute value it gives each
RecognisedLabels == {S_just_now, S_5_minutes_ago, S_2_hours_ago}
LabelMinutes(label) ==
    CASE label = S_2_hours_ago   -> 120
      [] label = S_5_minutes_ago -> 5
      [] OTHER                   -> 0

\* a may stand before b in a list sorted by recency
RecencyOrdered(a, b) ==
    b \in RecognisedLabels =>
        (a \in RecognisedLabels /\ LabelMinutes(a) <= LabelMinutes(b))

\* C6: with sortBy "recent" the returned list is ordered non-decreasingly by
\* the minute value of its age labels, records with an unrecognised or empty
\* label last.
C6_RecentSorted ==
    (Done /\ opts.sortBy = "recent") =>
        \A i, j \in 1..Len(result.value) :
            i < j => RecencyOrdered(result.value[i].agoTime, result.value[j].agoTime)

---------------------------------------------------------------------------
(* Properties of getTotalPages                                             *)

\* C7: getTotalPages never raises and answers an integer from 1 to 40: for a
\* job count n read off the page it is the least number of pages of 25 that
\* hold n jobs, at least 1 and at most 40; when the request or the parse
\* fails it is 40; either way getJobs goes on to request the first batch.
C7_PageCountClamped ==
    pc # "estimating" =>
        /\ pc = "fetching"
        /\ result = Pending
        /\ Len(requests) = 1
        /\ totalPages \in 1..40
        /\ estimate.kind = "error" => totalPages = 40
        /\ estimate.kind = "response" =>
             LET n == JobsCount(estimate.text)
             IN  /\ n = 0 => totalPages = 1
                 /\ (n >= 1 /\ n <= 1000) =>
                        (25 * (totalPages - 1) < n /\ n <= 25 * totalPages)
                 /\ n > 1000 => totalPages = 40
                 /\ estimate.text = <<"5", "1">> => totalPages = 3
                 /\ estimate.text = <<"1", ",", "0", "0">> => totalPages = 4
                 /\ estimate.text = <<" ", " ">> => totalPages = 1

\* C7 witness: the page shows 1001 jobs, 41 pages' worth, and the answer is 40.
C7_Witness ==
    /\ pc = "fetching"
    /\ estimate.kind = "response"
    /\ estimate.text = <<"1", "0", "0", "1">>
    /\ totalPages = 40

---------------------------------------------------------------------------
(* Properties of the records: parseJobList alone and inside a session      *)

InitRecords == Init \/ InitParse

NextRecords == Next \/ NextParse

SpecRecords == InitRecords /\ [][NextRecords]_vars

\* the cards of a page that extract without raising and carry a title and a
\* company beyond white space
GoodCards(items) ==
    {i \in 1..Len(items) :
        /\ ~items[i].throws
        /\ \E k \in 1..Len(items[i].title) : ~IsSpace(items[i].title[k])
        /\ \E k \in 1..Len(items[i].subtitle) : ~IsSpace(items[i].subtitle[k])}

\* the j-th good card of a page
GoodCardAt(items, j) ==
    CHOOSE i \in GoodCards(items) : Cardinality({k \in GoodCards(items) : k <= i}) = j

\* every record of a list has a position and a company
AllNamed(jobs) ==
    \A j \in 1..Len(jobs) : jobs[j].position # <<>> /\ jobs[j].company # <<>>

\* C8: every record parseJobList returns, and so every record getJobs holds
\* or returns, has a non-empty position and a non-empty company; a card
\* lacking either, or whose extraction raises, is dropped and the other
\* cards of the page come out as they would alone, in page order.
C8_OnlyNamedRecords ==
    /\ mode = "session" =>
         /\ AllNamed(allJobs)
         /\ result.kind = "resolved" => AllNamed(result.value)
    /\ (mode = "parse" /\ pc = "returned") =>
         /\ AllNamed(output)
         /\ input.malformed => output = <<>>
         /\ ~input.malformed =>
              /\ Len(output) = Cardinality(GoodCards(input.items))
              /\ \A j \in 1..Len(output) :
                    <<output[j]>> =
                        ParseJobList(ListingPage(<<input.items[GoodCardAt(input.items, j)]>>))

\* C8 witness: a page whose first card raises and whose second is sound
\* yields the second card's record alone.
C8_Witness ==
    /\ mode = "parse"
    /\ pc = "returned"
    /\ input.items = <<CardThrowing, CardOld>>
    /\ Len(output) = 1
    /\ output[1].position = <<"a">>

JobFields ==
    {"position", "company", "location", "date", "salary", "jobUrl", "companyLogo", "agoTime"}

\* the letters the strings of the model are made of
Letters ==
    {" ", "\n", "\t", "a", "b", "c", "d", "e", "x", "L", "g", "$", "?", "q", "u", "v",
     "h", "o", "r", "s", "m", "i", "n", "t", "j", "w", "N", "p", "f", ",", "+"}
    \cup {Digits[i] : i \in 1..10}

\* v is a string: a sequence of letters (undefined is not)
IsString(v) == \A i \in 1..Len(v) : v[i] \in Letters

Blank(text) == \A k \in 1..Len(text) : IsSpace(text[k])

\* a record has the eight fields, each a string, and a salary
WellShaped(job) ==
    /\ DOMAIN job = JobFields
    /\ \A f \in JobFields : IsString(job[f])
    /\ job.salary # <<>>

\* C9: every record returned carries the eight fields, each a string; a value
\* the markup lacks is the empty string, except the salary, which is then
\* "Not specified" and so never empty.
C9_EightStringFields ==
    /\ mode = "session" =>
         /\ \A j \in 1..Len(allJobs) : WellShaped(allJobs[j])
         /\ Done => /\ result.kind = "resolved"
                    /\ DOMAIN result.value = 1..Len(result.value)
                    /\ \A j \in 1..Len(result.value) : WellShaped(result.value[j])
    /\ (mode = "parse" /\ pc = "returned") =>
         /\ \A j \in 1..Len(output) : WellShaped(output[j])
         /\ (Len(input.items) = 1 /\ Len(output) = 1) =>
              LET card == input.items[1]
                  job  == output[1]
              IN  /\ Blank(card.location) => job.location = <<>>
                  /\ card.datetime = Undefined => job.date = <<>>
                  /\ card.logo = Undefined => job.companyLogo = <<>>
                  /\ (card.fullLink \in {Undefined, <<>>} /\ card.anchor = Undefined) =>
                         job.jobUrl = <<>>
                  /\ (Blank(card.listdateNew) /\ Blank(card.listdate)) => job.agoTime = <<>>
                  /\ Blank(card.salaryInfo) => job.salary = S_Not_specified

\* C9 witness: a card with a title and a company and nothing else yields a
\* record whose other fields are empty and whose salary is the sentinel.
C9_Witness ==
    /\ mode = "parse"
    /\ pc = "returned"
    /\ Len(input.items) = 1
    /\ Len(output) = 1
    /\ input.items[1].datetime = Undefined
    /\ input.items[1].salaryInfo = <<" ">>
    /\ output[1].date = <<>>
    /\ output[1].jobUrl = <<>>
    /\ output[1].companyLogo = <<>>
    /\ output[1].agoTime = <<>>
    /\ output[1].salary = S_Not_specified

---------------------------------------------------------------------------
(* Properties of getUrl                                                    *)

\* the places of the parameters named key in the URL built
ParamsNamed(key) == {i \in 1..Len(output) : output[i][1] = key}

\* none for a value outside the table, one with the table's code for a
\* value in it
FilterEncoded(key, value, table) ==
    IF value \in DOMAIN table
    THEN /\ Cardinality(ParamsNamed(key)) = 1
         /\ \A i \in ParamsNamed(key) : output[i][2] = table[value]
    ELSE ParamsNamed(key) = {}

\* C10: the URL built by getUrl has no f_TPR / f_SB2 / f_E / f_WT / f_JT
\* parameter for a filter that is unset, empty or unrecognised, and exactly
\* one, with the code of the lookup table, for a filter set to a recognised
\* value.
C10_FiltersEncoded ==
    (mode = "url" /\ pc = "returned") =>
        /\ FilterEncoded("f_TPR", opts.dateSincePosted, dateRange)
        /\ FilterEncoded("f_SB2", opts.salary, salaryRange)
        /\ FilterEncoded("f_E", opts.experienceLevel, experienceRange)
        /\ FilterEncoded("f_WT", opts.remoteFilter, remoteFilterRange)
        /\ FilterEncoded("f_JT", opts.jobType, jobTypeRange)

---------------------------------------------------------------------------
(* The loop of getJobs: attempts, offsets, the counter, the delays         *)

\* the start parameters of the batches in the accumulator, in push order
PushedOffsets == [i \in 1..Len(pushed) |-> pushed[i].offset]

\* an exception was raised after the batch had been pushed (line 340-343)
AggregationRaised == lastEvent = "aggregate-error" \/ caught = TypeError

\* C11: the batch of an offset is in the accumulator at most once: no two
\* appended batches were fetched from the same offset, and while a failed
\* attempt waits for its retry the accumulator holds the batches of the
\* completed pages only, so the list returned holds no page twice.
C11_BatchAppendedOnce ==
    /\ \A i, j \in 1..Len(pushed) :
          pushed[i].offset = pushed[j].offset => i = j
    /\ pc = "backoff" => /\ Len(pushed) = currentPage
                         /\ Len(allJobs) = Len(Flatten(pushed))
    /\ Done => Len(result.value) <= Len(Flatten(pushed))

\* C12: an exception raised while the fetched batch is appended or the
\* accumulator re-sorted reaches the caller: getJobs has rejected with it,
\* and neither the counter nor a backoff nor a retry answers it.
C12_AggregationErrorPropagates ==
    AggregationRaised =>
        /\ pc = "rejected"
        /\ result = Rejected(caught)
        /\ consecutiveErrors = 0

\* the configured starting page, as the number getPage makes of it
StartingPage == NumberOf(opts.page).n

\* C13: the start parameter of the request in flight is 25 * (page + k), k
\* the number of non-empty batches appended so far; an offset whose batch
\* was appended is not requested again, the request after a failed fetch
\* repeats the offset, and the offsets requested go up by 0 or by 25.
C13_OffsetFollowsAppendedBatches ==
    /\ pc = "fetching" =>
          /\ LastRequest = Num(BATCH_SIZE * (StartingPage + Len(pushed)))
          /\ LastRequest \notin Range(PushedOffsets)
          /\ fetchFails > 0 => requests[Len(requests) - 1] = LastRequest
    /\ \A i \in 1..(Len(requests) - 1) :
          requests[i + 1].n - requests[i].n \in {0, BATCH_SIZE}

\* the session goes on: a request is in flight or a delay is running
InLoop == pc \in {"fetching", "delaying", "backoff"}

\* C14: the counter counts consecutive failures only: it stays in 0..3, it
\* is the number of batch requests that failed since the last batch was
\* appended (0 right after an appended batch), and the error ceiling ends a
\* session only when three requests in a row have failed.
C14_CeilingCountsConsecutiveFailures ==
    /\ consecutiveErrors \in 0..MAX_CONSECUTIVE_ERRORS
    /\ InLoop => consecutiveErrors = fetchFails
    /\ lastEvent = "ceiling" => fetchFails = MAX_CONSECUTIVE_ERRORS

\* C15: the non-empty batches appended to the accumulator are never more
\* than the page count getTotalPages returned, which is at most 40, and
\* with the page counter at that count no batch request is in flight.
C15_BatchesWithinPageCount ==
    pc # "estimating" =>
        /\ totalPages <= MAX_PAGES
        /\ Len(pushed) <= totalPages
        /\ currentPage <= totalPages
        /\ pc = "fetching" => currentPage < totalPages

\* why a session returned: the two breaks on the batch, the loop condition,
\* the break of the catch
SessionEnds == {"empty", "limit", "pages", "ceiling"}

\* C16: every session reaches 'done'; the batch requests issued are never
\* more than three per page of the page count, hence never more than 120,
\* and a session ends for exactly one reason: an empty batch, the limit,
\* the page count, or the error ceiling.
C16_SessionTerminates ==
    /\ [](/\ Len(requests) <= MAX_CONSECUTIVE_ERRORS * totalPages
          /\ MAX_CONSECUTIVE_ERRORS * totalPages <= 120
          /\ Done => lastEvent \in SessionEnds)
    /\ <>Done

\* C16 witness: with a page count of 2 the session took all six requests it
\* may take (two failures before the first page, three on the second) and
\* was ended by the error ceiling.
C16_Witness ==
    /\ Done
    /\ totalPages = 2
    /\ Len(requests) = MAX_CONSECUTIVE_ERRORS * totalPages
    /\ lastEvent = "ceiling"

\* pages that yield no record: no card, one card that is dropped for its
\* blank title, markup whose parse raises as a whole
EmptyYieldingPages == {ListingPage(<<>>), ListingPage(<<CardUntitled>>), MalformedPage}

\* the step in which the batch request in flight settles with an empty list
YieldsEmptyBatch ==
    /\ pc = "fetching"
    /\ attempt'.kind = "response"
    /\ ParseJobList(attempt'.data) = <<>>

\* C17: a batch request that yields an empty list ends the session in that
\* very step: getJobs resolves with the accumulator as it stood, the counter
\* is not raised, no request is added, and nothing happens after 'done'.
C17_EmptyBatchEndsSession ==
    [][/\ \A page \in EmptyYieldingPages : ParseJobList(page) = <<>>
       /\ YieldsEmptyBatch =>
             /\ pc' = "done"
             /\ result' = Resolved(allJobs)
             /\ allJobs' = allJobs
             /\ consecutiveErrors' = consecutiveErrors
             /\ requests' = requests
       /\ ~Done]_vars

\* C17 witness: after one appended batch and two failed attempts, a page
\* whose only card is dropped came back; the session is over with the
\* batch appended before, and the counter still reads 2.
C17_Witness ==
    /\ Done
    /\ lastEvent = "empty"
    /\ attempt = [kind |-> "response", data |-> ListingPage(<<CardUntitled>>)]
    /\ consecutiveErrors = 2
    /\ Len(requests) = 4
    /\ allJobs # <<>>
    /\ result = Resolved(allJobs)

\* the latest request brought a non-empty batch and the session goes on
AfterNonEmptyBatch == InLoop /\ attempt.kind = "response"

\* the latest request failed and the session goes on
AfterFailure == InLoop /\ attempt.kind = "error"

\* C18: requests go out one at a time, each after the one before has
\* settled and exactly one delay has elapsed: 2000 to 3000 ms after a
\* non-empty batch, 2^k seconds after the k-th failure in a row (k = 1, 2);
\* the third failure in a row is followed by no delay and no request.
C18_SequentialAndPaced ==
    /\ [](/\ AfterNonEmptyBatch => timer.ms \in 2000..3000
          /\ AfterFailure =>
                /\ fetchFails \in {1, 2}
                /\ timer.ms = (2 ^ fetchFails) * 1000
          /\ fetchFails = MAX_CONSECUTIVE_ERRORS => Done /\ timer = NoTimer
          /\ pc = "fetching" => timer = NoTimer /\ attempt = NoAttempt)
    /\ [][/\ requests' # requests =>
                /\ requests' = Append(requests, LastRequest')
                /\ requests # <<>> => pc \in {"delaying", "backoff"} /\ timer # NoTimer
          /\ ~Done]_vars

====
